---- MODULE Spec2Model ----
(***************************************************************************)
(* Model of simple-clangd-gen (src/src/main.rs): the pipeline that turns a  *)
(* Config of branches into a compilation database.                          *)
(*                                                                          *)
(* Representation.  A file name is the sequence of its dot-separated        *)
(* segments ("m.c" is <<"m","c">>, "inc" is <<"inc">>); a path is the       *)
(* sequence of its components, an absolute path starting with the root      *)
(* component <<"/">> ("/w/a" is << <<"/">>, <<"w">>, <<"a">> >>).  A String *)
(* of flags or of a command line is the sequence of its tokens with every   *)
(* blank kept as the token " ".  An Option is [some |-> FALSE] or           *)
(* [some |-> TRUE, v |-> value].                                            *)
(***************************************************************************)
EXTENDS Integers, Sequences, FiniteSets, TLC

VARIABLES
    config,         \* the Config read from INPUT (compile_flags, include_paths, branches)
    unreadable,     \* environment: directories whose read_dir fails
    PATH,           \* environment: Option of the search-path directory list
    executables,    \* environment: <<search dir, name>> pairs that exist
    out,            \* environment: content of the OUTPUT file
    pc,             \* position of the run
    compile_flags,  \* write_to: local compile_flags
    include_paths,  \* write_to: local include_paths
    db,             \* write_to: local db
    bi,             \* write_to: index of the branch of the for loop
    glob,           \* create_clangd_entry: the branch glob after the cur_dir prefix
    flags,          \* create_clangd_entry: merged flags
    paths,          \* create_clangd_entry: merged include paths
    candidates,     \* create_clangd_entry: candidate directories left to visit
    files,          \* create_clangd_entry: files discovered so far
    fi,             \* create_clangd_entry: number of files already turned into entries
    db_items,       \* create_clangd_entry: entries of this branch
    executed,       \* environment: log of the commands spawned
    scanned,        \* log of the scan_files calls
    found,          \* log of the files pushed by discovery, over all branches
    err,            \* the error the run ended with
    call            \* call record of a function applied on its own

vars == <<config, unreadable, PATH, executables, out, pc, compile_flags,
          include_paths, db, bi, glob, flags, paths, candidates, files, fi,
          db_items, executed, scanned, found, err, call>>

-----------------------------------------------------------------------------
(* Bounds *)

MaxBranches == 2

MaxUnreadable == 1

MaxPatLen == 3

MaxInstalled == 3

-----------------------------------------------------------------------------
(* Options, names, paths *)

None == [some |-> FALSE]

Some(x) == [some |-> TRUE, v |-> x]

N(s) == <<s>>

F(s, e) == <<s, e>>

RootDir == N("/")

CurDir == N(".")

ParentDir == N("..")

Star == N("*")

Bad == N("[")

SP == " "

\* Path::extension of a file name: the text after the last dot, none for a
\* name without a dot or a name whose only dot is its first character.
Extension(name) ==
    IF Len(name) < 2 \/ (Len(name) = 2 /\ name[1] = "")
    THEN None
    ELSE Some(name[Len(name)])

\* PathBuf::set_extension("o") on a file name.
SetExtensionO(name) ==
    IF Extension(name).some
    THEN SubSeq(name, 1, Len(name) - 1) \o <<"o">>
    ELSE name \o <<"o">>

-----------------------------------------------------------------------------
(* The filesystem of the run.  Node 1 is "/", node 2 the working directory   *)
(* /w.  read_dir lists the children of a directory in ascending node order.  *)

FS == <<
    [parent |-> 0,  name |-> RootDir,        kind |-> "dir",     target |-> 0],
    [parent |-> 1,  name |-> N("w"),         kind |-> "dir",     target |-> 0],
    [parent |-> 2,  name |-> N("a"),         kind |-> "dir",     target |-> 0],
    [parent |-> 3,  name |-> N("src"),       kind |-> "dir",     target |-> 0],
    [parent |-> 4,  name |-> F("m", "c"),    kind |-> "file",    target |-> 0],
    [parent |-> 4,  name |-> F("n", "cpp"),  kind |-> "file",    target |-> 0],
    [parent |-> 4,  name |-> F("gen", "c"),  kind |-> "dir",     target |-> 0],
    [parent |-> 7,  name |-> F("deep", "c"), kind |-> "file",    target |-> 0],
    [parent |-> 4,  name |-> N("inc"),       kind |-> "dir",     target |-> 0],
    [parent |-> 3,  name |-> N("lib"),       kind |-> "dir",     target |-> 0],
    [parent |-> 10, name |-> F("k", "c"),    kind |-> "file",    target |-> 0],
    [parent |-> 10, name |-> N("inc"),       kind |-> "dir",     target |-> 0],
    [parent |-> 3,  name |-> N("inc"),       kind |-> "dir",     target |-> 0],
    [parent |-> 2,  name |-> N("inc"),       kind |-> "dir",     target |-> 0],
    [parent |-> 3,  name |-> N("lnk"),       kind |-> "symlink", target |-> 10],
    [parent |-> 4,  name |-> F("m", "h"),    kind |-> "file",    target |-> 0]
>>

Nodes == 1..Len(FS)

Dirs == {n \in Nodes : FS[n].kind = "dir"}

CwdNode == 2

RECURSIVE PathOf(_)
\* the physical absolute path of a node
PathOf(n) ==
    IF FS[n].parent = 0 THEN <<FS[n].name>> ELSE PathOf(FS[n].parent) \o <<FS[n].name>>

\* a symbolic link stands for its target when a path is walked through it
Follow(n) == IF FS[n].kind = "symlink" THEN FS[n].target ELSE n

Child(n, name) ==
    LET cs == {c \in Nodes : FS[c].parent = n /\ FS[c].name = name}
    IN IF cs = {} THEN 0 ELSE CHOOSE c \in cs : TRUE

RECURSIVE Walk(_, _)
\* the node an absolute path denotes, 0 when it does not exist
Walk(n, comps) ==
    IF n = 0 THEN 0
    ELSE IF comps = <<>> THEN n
    ELSE LET c == Head(comps)
             d == Follow(n)
         IN IF c = RootDir THEN Walk(1, Tail(comps))
            ELSE IF FS[d].kind # "dir" THEN 0
            ELSE IF c = CurDir THEN Walk(d, Tail(comps))
            ELSE IF c = ParentDir
                 THEN Walk(IF FS[d].parent = 0 THEN d ELSE FS[d].parent, Tail(comps))
            ELSE Walk(Child(d, c), Tail(comps))

\* Path::exists
Exists(path) == path # <<>> /\ Walk(1, path) # 0

\* Path::canonicalize: the physical path of what the path denotes
Canonicalize(path) ==
    IF Exists(path) THEN Some(PathOf(Follow(Walk(1, path)))) ELSE None

\* std::env::current_dir
cur_dir == PathOf(CwdNode)

\* the children of node n in listing order
Children(n) ==
    LET IsChild(c) == FS[c].parent = n
    IN SelectSeq([k \in Nodes |-> k], IsChild)

\* the DirEntry of child c of directory dir: its name, its path, its file_type
DirEntry(dir, c) ==
    [file_name |-> FS[c].name, path |-> dir \o <<FS[c].name>>, file_type |-> FS[c].kind]

\* the listing of node n reached as dir
Listing(dir, n) ==
    IF n = 0 \/ FS[n].kind # "dir" \/ n \in unreadable
    THEN None
    ELSE Some([i \in 1..Len(Children(n)) |-> DirEntry(dir, Children(n)[i])])

\* read_dir: Err for a path that is no readable directory, else its entries
\* in listing order
read_dir(dir) == Listing(dir, IF Exists(dir) THEN Follow(Walk(1, dir)) ELSE 0)

-----------------------------------------------------------------------------
(* globset *)

\* Glob::new on a branch pattern, a sequence of path components: a pattern
\* with an unclosed character class does not parse
GlobNew(pat) == IF \E i \in 1..Len(pat) : pat[i] = Bad THEN None ELSE Some(pat)

\* Glob::new on a mask, a sequence of file name segments ("*.c" is <<"*","c">>)
MaskNew(pat) == IF \E i \in 1..Len(pat) : pat[i] = "[" THEN None ELSE Some(pat)

RECURSIVE Match(_, _, _)
\* a glob against a sequence of elements: a literal element matches itself,
\* and the wildcard matches any text, separators included (globset's default
\* literal_separator = false), so one or more whole elements
Match(pat, s, star) ==
    IF pat = <<>> THEN s = <<>>
    ELSE IF s = <<>> THEN FALSE
    ELSE IF Head(pat) = star
         THEN \E k \in 1..Len(s) : Match(Tail(pat), SubSeq(s, k + 1, Len(s)), star)
    ELSE Head(pat) = Head(s) /\ Match(Tail(pat), Tail(s), star)

\* GlobMatcher::is_match of a branch glob on a path
is_match(pat, path) == Match(pat, path, Star)

\* GlobMatcher::is_match of a mask on a file name
is_match_name(pat, name) == Match(pat, name, "*")

-----------------------------------------------------------------------------
(* Directory and file discovery *)

is_dir(file_type) == file_type = "dir"

is_symlink(file_type) == file_type = "symlink"

RECURSIVE find_directories(_, _, _)

RECURSIVE FindEntries(_, _, _, _)

\* VisitDirectory without the pruning: a matching directory is emitted and
\* still descended into
VisitDirectoryNoPrune(path, matcher, cands) ==
    IF is_match(matcher, path)
    THEN find_directories(path, matcher, Append(cands, path))
    ELSE find_directories(path, matcher, cands)

\* what find_directories does with a directory entry that is no symlink: a
\* match is pushed and not entered, anything else is walked
VisitDirectory(path, matcher, cands) ==
    IF is_match(matcher, path)
    THEN Append(cands, path)
    ELSE find_directories(path, matcher, cands)

\* the while loop of find_directories from entry i on
FindEntries(entries, i, matcher, cands) ==
    IF i > Len(entries) THEN cands
    ELSE IF is_dir(entries[i].file_type) /\ ~is_symlink(entries[i].file_type)
    THEN FindEntries(entries, i + 1, matcher,
                     VisitDirectory(entries[i].path, matcher, cands))
    ELSE FindEntries(entries, i + 1, matcher, cands)

\* find_directories(dir, matcher, candidates): candidates after the call; a
\* directory that cannot be listed adds nothing
find_directories(dir, matcher, cands) ==
    IF read_dir(dir).some THEN FindEntries(read_dir(dir).v, 1, matcher, cands) ELSE cands

\* the built-in mask: *.c *.C *.cc *.cpp *.cxx *.c++
DefaultMasks ==
    << <<"*", "c">>, <<"*", "C">>, <<"*", "cc">>, <<"*", "cpp">>,
       <<"*", "cxx">>, <<"*", "c++">> >>

\* the masks that parse (filter_map(|d| Glob::new(d).ok()))
CompiledMasks(masks) ==
    LET Parses(m) == MaskNew(m).some
    IN SelectSeq(masks, Parses)

\* masks.iter().any(|m| m.is_match(name))
AnyMatch(compiled, name) ==
    \E k \in 1..Len(compiled) : is_match_name(compiled[k], name)

\* the paths of the entries of a listing whose name matches a compiled mask
Matching(listing, compiled) ==
    LET Keep(entry) == AnyMatch(compiled, entry.file_name)
    IN IF listing.some
       THEN [k \in 1..Len(SelectSeq(listing.v, Keep)) |-> SelectSeq(listing.v, Keep)[k].path]
       ELSE <<>>

\* scan_files(path, masks, files): files after the call; every entry of the
\* directory whose name matches a mask is pushed, whatever its file type
scan_files(path, masks, acc) ==
    acc \o Matching(read_dir(path), CompiledMasks(masks))

-----------------------------------------------------------------------------
(* Executable locator *)

Ok(x) == [ok |-> TRUE, v |-> x]

Err(e) == [ok |-> FALSE, e |-> e]

CCandidates == <<N("clang"), N("gcc"), N("cc")>>

CxxCandidates == <<N("clang++"), N("g++"), N("c++")>>

\* Path::file_name and Path::parent of a path with at least two components
FileName(path) == path[Len(path)]

Parent(path) == SubSeq(path, 1, Len(path) - 1)

CompilerCandidates(source_file) ==
    LET is_c == Extension(FileName(source_file)) = Some("c")
    IN IF is_c THEN CCandidates ELSE CxxCandidates

\* path.exists() of a probe of the search path
ProbeExists(path) == path \in executables

RECURSIVE ProbeDirs(_, _, _)
\* the inner loop: the first directory from j on that holds the candidate
ProbeDirs(dirs, j, candidate) ==
    IF j > Len(dirs) THEN None
    ELSE IF ProbeExists(dirs[j] \o <<candidate>>) THEN Some(dirs[j] \o <<candidate>>)
    ELSE ProbeDirs(dirs, j + 1, candidate)

RECURSIVE ProbeCandidates(_, _, _)
\* the outer loop: the first candidate from i on found in some directory
ProbeCandidates(cands, i, dirs) ==
    IF i > Len(cands) THEN None
    ELSE IF ProbeDirs(dirs, 1, cands[i]).some THEN ProbeDirs(dirs, 1, cands[i])
    ELSE ProbeCandidates(cands, i + 1, dirs)

\* the result of the search: the hit as a string, or the error naming the file
Located(hit, source_file) ==
    IF hit.some THEN Ok(hit.v) ELSE Err([kind |-> "compiler", file |-> source_file])

RECURSIVE ProbeDirsFirst(_, _, _)
\* the loops nested the other way round: directory first, then candidate
ProbeDirsFirst(dirs, j, cands) ==
    IF j > Len(dirs) THEN None
    ELSE LET here == {i \in 1..Len(cands) : ProbeExists(dirs[j] \o <<cands[i]>>)}
         IN IF here # {}
            THEN Some(dirs[j] \o <<cands[CHOOSE i \in here : \A k \in here : i <= k]>>)
            ELSE ProbeDirsFirst(dirs, j + 1, cands)

\* resolve_executable with the search nested directory-first
resolve_executable_dir_first(source_file) ==
    IF ~PATH.some THEN Err([kind |-> "env"])
    ELSE Located(ProbeDirsFirst(PATH.v, 1, CompilerCandidates(source_file)), source_file)

\* resolve_executable(source_file)
resolve_executable(source_file) ==
    IF ~PATH.some THEN Err([kind |-> "env"])
    ELSE Located(ProbeCandidates(CompilerCandidates(source_file), 1, PATH.v), source_file)

-----------------------------------------------------------------------------
(* Branch resolver: the pieces of Branch::create_clangd_entry *)

Branch == config.branches[bi]

\* the branch glob, prefixed with the working directory unless its first
\* character is the separator
Prefixed(branch) ==
    IF branch # <<>> /\ Head(branch) = RootDir THEN branch ELSE cur_dir \o branch

\* the merge with the branch flags put first
MergeFlagsBranchFirst(global, branch_flags) ==
    IF ~branch_flags.some THEN global
    ELSE branch_flags.v \o (IF Len(global) > 0 THEN <<SP>> ELSE <<>>) \o global

\* flags after the branch compile_flags are taken
MergeFlags(global, branch_flags) ==
    IF ~branch_flags.some THEN global
    ELSE (IF Len(global) > 0 THEN global \o <<SP>> ELSE global) \o branch_flags.v

\* paths after the branch include_paths are taken
MergePaths(global, branch_paths) ==
    IF branch_paths.some THEN global \o branch_paths.v ELSE global

\* the choice with the tool tested before the mask
StrategyToolFirst(branch) ==
    IF branch.tool.some THEN "tool"
    ELSE IF branch.mask.some THEN "mask"
    ELSE "default"

\* the if / else if / else of the candidate loop
Strategy(branch) ==
    IF branch.mask.some THEN "mask"
    ELSE IF branch.tool.some THEN "tool"
    ELSE "default"

\* str::split_whitespace
Words(s) == LET NotBlank(t) == t # SP IN SelectSeq(s, NotBlank)

\* a status taken for a success whatever the exit code
success_always(code) == TRUE

\* ExitStatus::success
success(code) == code = 0

\* the file a token of the tool's stdout names, seen from the candidate
ToolFile(candidate, filename) ==
    IF Head(filename) = RootDir THEN filename ELSE candidate \o filename

RECURSIVE ToolFiles(_, _, _, _)
\* the loop over the tokens of stdout: existing files, canonicalized
ToolFiles(candidate, stdout, i, acc) ==
    IF i > Len(stdout) THEN acc
    ELSE ToolFiles(candidate, stdout, i + 1,
                   IF Exists(ToolFile(candidate, stdout[i]))
                   THEN Append(acc, Canonicalize(ToolFile(candidate, stdout[i])).v)
                   ELSE acc)

\* the base directory with every path resolved against the working directory
IncludeBaseCwd(path, file_path) == cur_dir

\* the base directory an include path is resolved against: the working
\* directory for a first component that is a normal name, the directory of
\* the file otherwise ("." or "..")
IncludeBase(path, file_path) ==
    IF path # <<>> /\ Head(path) \notin {CurDir, ParentDir}
    THEN cur_dir
    ELSE Parent(file_path)

\* the resolution that returns every path it cannot canonicalize as written
ResolveIncludeLenient(path, file_path) ==
    IF path # <<>> /\ Head(path) = RootDir THEN Ok(path)
    ELSE IF Exists(IncludeBase(path, file_path) \o path)
    THEN Ok(Canonicalize(IncludeBase(path, file_path) \o path).v)
    ELSE Ok(IncludeBase(path, file_path) \o path)

\* one include path of one file: untouched when it starts at the root, else
\* pushed on its base and canonicalized, which fails when it does not exist
ResolveInclude(path, file_path) ==
    IF path # <<>> /\ Head(path) = RootDir THEN Ok(path)
    ELSE IF Exists(IncludeBase(path, file_path) \o path)
    THEN Ok(Canonicalize(IncludeBase(path, file_path) \o path).v)
    ELSE Err([kind |-> "resolve", path |-> path, base |-> IncludeBase(path, file_path)])

RECURSIVE ResolvePaths(_, _, _)
\* the iter_mut loop from path i on: the resolved paths or the first error
ResolvePaths(ps, i, file_path) ==
    IF i > Len(ps) THEN Ok(ps)
    ELSE IF ResolveInclude(ps[i], file_path).ok
    THEN ResolvePaths([ps EXCEPT ![i] = ResolveInclude(ps[i], file_path).v], i + 1, file_path)
    ELSE ResolveInclude(ps[i], file_path)

\* the outer paths after a file iteration: the loop works on a clone
PathsAfterFile(merged, resolved) == merged

\* the entry of a file
Entry(file_path, resolved, exe) ==
    [directory |-> Parent(file_path),
     file      |-> FileName(file_path),
     command   |-> Some([exe         |-> exe,
                         includes    |-> resolved,
                         flags       |-> flags,
                         object_file |-> SetExtensionO(FileName(file_path)),
                         file        |-> FileName(file_path)])]

\* Vec::extend that puts the new entries in front
extend_front(v, items) == items \o v

\* Vec::extend
extend(v, items) == v \o items

\* the loop over the branches is over, or was left by an error
LoopOverOrFailed == (pc = "branch" /\ bi > Len(config.branches)) \/ pc = "failed"

\* the loop over the branches is over, every branch having returned Ok
LoopOver == pc = "branch" /\ bi > Len(config.branches)

-----------------------------------------------------------------------------
(* Inputs: the configurations, environments and tool behaviours explored *)

Bin == <<RootDir, N("bin")>>

Opt == <<RootDir, N("opt")>>

Usr == <<RootDir, N("usr")>>

IncBare == <<N("inc")>>

IncCur == <<CurDir, N("inc")>>

IncParent == <<ParentDir, N("inc")>>

IncAbs == <<RootDir, N("w"), N("inc")>>

IncAbsGone == <<RootDir, N("nope")>>

IncCurGone == <<CurDir, N("nope")>>

GlobAll == <<N("a"), Star>>

GlobSrc == <<N("a"), N("src")>>

GlobLibAbsolute == <<RootDir, N("w"), N("a"), N("lib")>>

GlobBad == <<N("a"), Bad>>

MaskC == << <<"*", "c">> >>

MaskBadAndH == << <<"[">>, <<"*", "h">> >>

ToolFind == <<"find", SP, ".">>

ToolBlank == <<SP>>

BaseBranch ==
    [branch |-> GlobAll, compile_flags |-> None, include_paths |-> None,
     mask |-> None, tool |-> None]

BranchChoices ==
    {[BaseBranch EXCEPT !.branch = g] :
        g \in {GlobAll, GlobSrc, GlobLibAbsolute, GlobBad}}
        \cup {[BaseBranch EXCEPT !.compile_flags = Some(<<"-g", SP, "-Wall">>),
                                 !.include_paths = Some(<<IncBare, IncCur, IncParent, IncAbs>>)]}
        \cup {[BaseBranch EXCEPT !.include_paths = Some(ps)] :
                 ps \in {<<IncAbsGone>>, <<IncCur, IncCurGone>>}}
        \cup {[BaseBranch EXCEPT !.mask = Some(MaskC), !.tool = Some(ToolFind)],
              [BaseBranch EXCEPT !.mask = Some(MaskBadAndH)],
              [BaseBranch EXCEPT !.tool = Some(ToolFind)],
              [BaseBranch EXCEPT !.tool = Some(ToolBlank)]}

BranchLists ==
    UNION {[1..n -> BranchChoices] : n \in 1..MaxBranches}

GlobalChoices ==
    {[compile_flags |-> None,             include_paths |-> None],
     [compile_flags |-> Some(<<"-O2">>),  include_paths |-> Some(<<IncCur>>)]}

Configs ==
    {[compile_flags |-> g.compile_flags, include_paths |-> g.include_paths,
      branches |-> bs] : g \in GlobalChoices, bs \in BranchLists}

Environments ==
    {[PATH |-> None, executables |-> {}, unreadable |-> {4}],
     [PATH |-> Some(<<Bin, Opt>>), unreadable |-> {},
      executables |-> {Opt \o <<N("g++")>>}],
     [PATH |-> Some(<<Bin, Opt>>), unreadable |-> {},
      executables |-> {Bin \o <<N("gcc")>>, Opt \o <<N("clang")>>,
                       Bin \o <<N("c++")>>, Opt \o <<N("clang++")>>}]}

Absent == [state |-> "absent"]

Old == [state |-> "old"]

Written(entries) == [state |-> "written", db |-> entries]

PriorOutputs == {Absent, Old}

ToolStdouts ==
    {<< <<F("m", "c")>>, <<F("n", "cpp")>> >>,
     << <<RootDir, N("w"), N("a"), N("lib"), F("k", "c")>>, <<F("nope", "c")>> >>}

\* what running a command can do: not start, or end with an exit code
ToolOutcomes ==
    {[spawned |-> FALSE]}
        \cup {[spawned |-> TRUE, code |-> 2,
               stdout |-> << <<F("m", "c")>> >>, stderr |-> "boom"]}
        \cup {[spawned |-> TRUE, code |-> 0, stdout |-> so, stderr |-> ""] :
                 so \in ToolStdouts}

-----------------------------------------------------------------------------
(* The run: Config::write_to calling Branch::create_clangd_entry *)

unwrap_or_empty(opt) == IF opt.some THEN opt.v ELSE <<>>

Init ==
    /\ config \in Configs
    /\ \E e \in Environments :
          /\ PATH = e.PATH
          /\ executables = e.executables
          /\ unreadable = e.unreadable
    /\ out \in PriorOutputs
    /\ pc = "branch"
    /\ compile_flags = unwrap_or_empty(config.compile_flags)
    /\ include_paths = unwrap_or_empty(config.include_paths)
    /\ db = <<>>
    /\ bi = 1
    /\ glob = <<>>
    /\ flags = <<>>
    /\ paths = <<>>
    /\ candidates = <<>>
    /\ files = <<>>
    /\ fi = 0
    /\ db_items = <<>>
    /\ executed = <<>>
    /\ scanned = <<>>
    /\ found = <<>>
    /\ err = None
    /\ call = None

environment == <<config, unreadable, PATH, executables>>

\* the run ends with error e
Fail(e) ==
    /\ pc' = "failed"
    /\ err' = Some(e)

\* the branch glob does not parse
GlobError ==
    /\ pc = "branch" /\ bi <= Len(config.branches)
    /\ ~GlobNew(Prefixed(Branch.branch)).some
    /\ glob' = Prefixed(Branch.branch)
    /\ Fail([kind |-> "glob", pattern |-> Prefixed(Branch.branch)])
    /\ UNCHANGED <<environment, out, compile_flags, include_paths, db, bi, flags,
                   paths, candidates, files, fi, db_items, executed, scanned,
                   found, call>>

\* create_clangd_entry up to the candidate loop
BeginBranch ==
    /\ pc = "branch" /\ bi <= Len(config.branches)
    /\ GlobNew(Prefixed(Branch.branch)).some
    /\ glob' = Prefixed(Branch.branch)
    /\ flags' = MergeFlags(compile_flags, Branch.compile_flags)
    /\ paths' = MergePaths(include_paths, Branch.include_paths)
    /\ candidates' = find_directories(cur_dir, GlobNew(glob').v, <<>>)
    /\ files' = <<>>
    /\ fi' = 0
    /\ db_items' = <<>>
    /\ pc' = "body"
    /\ UNCHANGED <<environment, out, compile_flags, include_paths, db, bi,
                   executed, scanned, found, err, call>>

InCandidateLoop == pc = "body" /\ candidates # <<>>

\* a candidate scanned with masks
Scan(masks) ==
       /\ files' = scan_files(Head(candidates), masks, files)
       /\ found' = found \o SubSeq(files', Len(files) + 1, Len(files'))
       /\ scanned' = Append(scanned, [bi |-> bi, dir |-> Head(candidates), masks |-> masks])
       /\ candidates' = Tail(candidates)
       /\ UNCHANGED <<environment, out, pc, compile_flags, include_paths, db, bi,
                      glob, flags, paths, fi, db_items, executed, err, call>>

ScanMask ==
    /\ InCandidateLoop
    /\ Strategy(Branch) = "mask"
    /\ Scan(Branch.mask.v)

ScanDefault ==
    /\ InCandidateLoop
    /\ Strategy(Branch) = "default"
    /\ Scan(DefaultMasks)

\* a tool of blanks only names no command: the candidate yields nothing
ToolNoCommand ==
    /\ InCandidateLoop
    /\ Strategy(Branch) = "tool"
    /\ Words(Branch.tool.v) = <<>>
    /\ candidates' = Tail(candidates)
    /\ UNCHANGED <<environment, out, pc, compile_flags, include_paths, db, bi, glob,
                   flags, paths, files, fi, db_items, executed, scanned, found,
                   err, call>>

InToolRun ==
    /\ InCandidateLoop
    /\ Strategy(Branch) = "tool"
    /\ Words(Branch.tool.v) # <<>>

\* the record of a command run in the head candidate
Execution(outcome) ==
    [bi |-> bi, cmd |-> Head(Words(Branch.tool.v)),
     arguments |-> Tail(Words(Branch.tool.v)),
     current_dir |-> Head(candidates), outcome |-> outcome]

ToolSpawnFails ==
    /\ InToolRun
    /\ \E o \in ToolOutcomes :
          /\ ~o.spawned
          /\ executed' = Append(executed, Execution(o))
    /\ Fail([kind |-> "tool_spawn", tool |-> Branch.tool.v])
    /\ UNCHANGED <<environment, out, compile_flags, include_paths, db, bi, glob,
                   flags, paths, candidates, files, fi, db_items, scanned, found,
                   call>>

ToolExitFails ==
    /\ InToolRun
    /\ \E o \in ToolOutcomes :
          /\ o.spawned
          /\ ~success(o.code)
          /\ executed' = Append(executed, Execution(o))
          /\ Fail([kind |-> "tool_exit", tool |-> Branch.tool.v, code |-> o.code,
                   stdout |-> o.stdout, stderr |-> o.stderr])
    /\ UNCHANGED <<environment, out, compile_flags, include_paths, db, bi, glob,
                   flags, paths, candidates, files, fi, db_items, scanned, found,
                   call>>

ToolSucceeds ==
    /\ InToolRun
    /\ \E o \in ToolOutcomes :
          /\ o.spawned
          /\ success(o.code)
          /\ executed' = Append(executed, Execution(o))
          /\ files' = ToolFiles(Head(candidates), o.stdout, 1, files)
          /\ found' = found \o SubSeq(files', Len(files) + 1, Len(files'))
    /\ candidates' = Tail(candidates)
    /\ UNCHANGED <<environment, out, pc, compile_flags, include_paths, db, bi, glob,
                   flags, paths, fi, db_items, scanned, err, call>>

InFileLoop == pc = "body" /\ candidates = <<>> /\ fi < Len(files)

file_path == files[fi + 1]

\* an include path of the file does not resolve
EntryResolveFails ==
    /\ InFileLoop
    /\ ~ResolvePaths(paths, 1, file_path).ok
    /\ Fail(ResolvePaths(paths, 1, file_path).e)
    /\ UNCHANGED <<environment, out, compile_flags, include_paths, db, bi, glob,
                   flags, paths, candidates, files, fi, db_items, executed,
                   scanned, found, call>>

\* no compiler is located for the file
EntryCompilerFails ==
    /\ InFileLoop
    /\ ResolvePaths(paths, 1, file_path).ok
    /\ ~resolve_executable(file_path).ok
    /\ Fail(resolve_executable(file_path).e)
    /\ UNCHANGED <<environment, out, compile_flags, include_paths, db, bi, glob,
                   flags, paths, candidates, files, fi, db_items, executed,
                   scanned, found, call>>

\* one iteration of the file loop that pushes its entry
PushEntry ==
    /\ InFileLoop
    /\ ResolvePaths(paths, 1, file_path).ok
    /\ resolve_executable(file_path).ok
    /\ db_items' = Append(db_items, Entry(file_path, ResolvePaths(paths, 1, file_path).v,
                                          resolve_executable(file_path).v))
    /\ paths' = PathsAfterFile(paths, ResolvePaths(paths, 1, file_path).v)
    /\ fi' = fi + 1
    /\ UNCHANGED <<environment, out, pc, compile_flags, include_paths, db, bi, glob,
                   flags, candidates, files, executed, scanned, found, err, call>>

\* create_clangd_entry returns Ok(db_items) and write_to extends db with it
EndBranch ==
    /\ pc = "body" /\ candidates = <<>> /\ fi = Len(files)
    /\ db' = extend(db, db_items)
    /\ db_items' = <<>>
    /\ bi' = bi + 1
    /\ pc' = "branch"
    /\ UNCHANGED <<environment, out, compile_flags, include_paths, glob, flags, paths,
                   candidates, files, fi, executed, scanned, found, err, call>>

\* File::create and the serialization of db
WriteOutput ==
    /\ LoopOver
    /\ out' = Written(db)
    /\ pc' = "done"
    /\ UNCHANGED <<environment, compile_flags, include_paths, db, bi, glob, flags,
                   paths, candidates, files, fi, db_items, executed, scanned,
                   found, err, call>>

\* File::create fails: nothing is written
CreateFails ==
    /\ LoopOver
    /\ Fail([kind |-> "output"])
    /\ UNCHANGED <<environment, out, compile_flags, include_paths, db, bi, glob,
                   flags, paths, candidates, files, fi, db_items, executed,
                   scanned, found, call>>

Next ==
    \/ GlobError
    \/ BeginBranch
    \/ ScanMask
    \/ ScanDefault
    \/ ToolNoCommand
    \/ ToolSpawnFails
    \/ ToolExitFails
    \/ ToolSucceeds
    \/ EntryResolveFails
    \/ EntryCompilerFails
    \/ PushEntry
    \/ EndBranch
    \/ WriteOutput
    \/ CreateFails

Spec == Init /\ [][Next]_vars

-----------------------------------------------------------------------------
(* find_directories applied on its own, to any root, glob and set of         *)
(* unreadable directories                                                    *)

RECURSIVE SubsetsUpTo(_, _)
\* the subsets of S of at most k elements
SubsetsUpTo(S, k) ==
    IF k = 0 THEN {{}}
    ELSE SubsetsUpTo(S, k - 1) \cup {s \cup {x} : s \in SubsetsUpTo(S, k - 1), x \in S}

PatternElements == {N("a"), N("src"), N("lib"), N("inc"), N("lnk"), Star}

\* the branch globs of 1..MaxPatLen components, under the working directory
Patterns ==
    UNION {{cur_dir \o p : p \in [1..n -> PatternElements]} : n \in 1..MaxPatLen}

Roots == {PathOf(2), PathOf(3)}

NoConfig == [compile_flags |-> None, include_paths |-> None, branches |-> <<>>]

\* the state of a function applied on its own: nothing of a run is under way
Idle ==
    /\ config = NoConfig
    /\ out = Absent
    /\ pc = "call"
    /\ compile_flags = <<>>
    /\ include_paths = <<>>
    /\ db = <<>>
    /\ bi = 1
    /\ glob = <<>>
    /\ flags = <<>>
    /\ paths = <<>>
    /\ candidates = <<>>
    /\ files = <<>>
    /\ fi = 0
    /\ db_items = <<>>
    /\ executed = <<>>
    /\ scanned = <<>>
    /\ found = <<>>
    /\ err = None

InitFind ==
    /\ Idle
    /\ PATH = None
    /\ executables = {}
    /\ unreadable \in SubsetsUpTo(Dirs, MaxUnreadable)
    /\ call \in {Some([fn |-> "find_directories", dir |-> r, matcher |-> m, ret |-> None]) :
                    r \in Roots, m \in Patterns}

FindCall ==
    /\ call.some /\ call.v.fn = "find_directories" /\ ~call.v.ret.some
    /\ call' = Some([call.v EXCEPT
                        !.ret = Some(find_directories(call.v.dir, call.v.matcher, <<>>))])
    /\ UNCHANGED <<config, unreadable, PATH, executables, out, pc, compile_flags,
                   include_paths, db, bi, glob, flags, paths, candidates, files, fi,
                   db_items, executed, scanned, found, err>>

NextFind == FindCall

SpecFind == InitFind /\ [][NextFind]_vars

-----------------------------------------------------------------------------
(* resolve_executable applied on its own, to any source file, search path    *)
(* and set of installed executables                                          *)

SearchDirs == {Bin, Opt, Usr}

CompilerNames == {N("clang"), N("gcc"), N("cc"), N("clang++"), N("g++"), N("c++")}

SearchPaths ==
    {None, Some(<<Bin>>), Some(<<Bin, Opt>>), Some(<<Opt, Bin>>),
     Some(<<Bin, Opt, Usr>>), Some(<<Usr, Opt, Bin>>)}

SourceFiles ==
    {PathOf(4) \o <<nm>> :
        nm \in {F("m", "c"), F("n", "cpp"), F("x", "C"), N("Makefile"), F("", "c")}}

InitLocate ==
    /\ Idle
    /\ unreadable = {}
    /\ PATH \in SearchPaths
    /\ executables \in SubsetsUpTo({d \o <<c>> : d \in SearchDirs, c \in CompilerNames},
                                   MaxInstalled)
    /\ call \in {Some([fn |-> "resolve_executable", source_file |-> f, ret |-> None]) :
                    f \in SourceFiles}

LocateCall ==
    /\ call.some /\ call.v.fn = "resolve_executable" /\ ~call.v.ret.some
    /\ call' = Some([call.v EXCEPT !.ret = Some(resolve_executable(call.v.source_file))])
    /\ UNCHANGED <<config, unreadable, PATH, executables, out, pc, compile_flags,
                   include_paths, db, bi, glob, flags, paths, candidates, files, fi,
                   db_items, executed, scanned, found, err>>

NextLocate == LocateCall

SpecLocate == InitLocate /\ [][NextLocate]_vars

-----------------------------------------------------------------------------
(* Claims *)

NodeOf(path) == Walk(1, path)

RECURSIVE StrictlyBelow(_, _)
\* node n lies strictly below node r in the directory tree
StrictlyBelow(n, r) ==
    /\ FS[n].parent # 0
    /\ (FS[n].parent = r \/ StrictlyBelow(FS[n].parent, r))

\* the directories that lie between r and n, both excluded
Between(n, r) == {q \in Nodes : StrictlyBelow(n, q) /\ StrictlyBelow(q, r)}

\* the directories below root that match, are no symbolic links, and are
\* reached through directories that do not match and are no symbolic links;
\* with listed = TRUE, through directories whose listing succeeds only
Reached(root, matcher, listed) ==
    {PathOf(n) : n \in {m \in Nodes :
        /\ StrictlyBelow(m, NodeOf(root))
        /\ FS[m].kind = "dir"
        /\ is_match(matcher, PathOf(m))
        /\ \A q \in Between(m, NodeOf(root)) :
              /\ FS[q].kind = "dir"
              /\ ~is_match(matcher, PathOf(q))
        /\ listed => \A q \in Between(m, NodeOf(root)) \cup {NodeOf(root)} :
                        q \notin unreadable}}

Range(seq) == {seq[i] : i \in 1..Len(seq)}

Returned == call.some /\ call.v.ret.some

InBody == pc = "body" /\ bi <= Len(config.branches)

Relative(path) == path = <<>> \/ Head(path) # RootDir

Dotted(path) == path # <<>> /\ Head(path) \in {CurDir, ParentDir}

Includes(entry) == entry.command.v.includes

\* C2, as claimed: two source files in different directories of the same
\* branch with the same ./ or ../ include get different resolved paths.
C2_Original ==
    InBody =>
        \A k1 \in 1..Len(db_items) : \A k2 \in 1..Len(db_items) :
            db_items[k1].directory # db_items[k2].directory =>
                \A i \in 1..Len(paths) :
                    Dotted(paths[i]) => Includes(db_items[k1])[i] # Includes(db_items[k2])[i]

\* C2, amended: include paths are resolved independently for every
\* discovered file: a path starting with . or .. is resolved against the
\* directory of that file and a bare relative path against the working
\* directory; resolving for one file leaves the merged paths used for the
\* next file unchanged; two files in different directories get different
\* resolved paths for the same ./ or ../ include exactly when the include
\* denotes different directories from the two (../inc from two sibling
\* directories resolves to the same path).
C2_PerFileAnchor ==
    InBody =>
        /\ paths = unwrap_or_empty(config.include_paths)
                       \o unwrap_or_empty(Branch.include_paths)
        /\ Len(db_items) = fi
        /\ \A k \in 1..Len(db_items) : \A i \in 1..Len(paths) :
              /\ Dotted(paths[i]) =>
                    Includes(db_items[k])[i] =
                        PathOf(Follow(NodeOf(Parent(files[k]) \o paths[i])))
              /\ (Relative(paths[i]) /\ ~Dotted(paths[i])) =>
                    Includes(db_items[k])[i] =
                        PathOf(Follow(NodeOf(cur_dir \o paths[i])))
        /\ \A k1 \in 1..Len(db_items) : \A k2 \in 1..Len(db_items) :
              \A i \in 1..Len(paths) :
                  Dotted(paths[i]) =>
                      ((Includes(db_items[k1])[i] # Includes(db_items[k2])[i])
                         <=> (Follow(NodeOf(Parent(files[k1]) \o paths[i]))
                                # Follow(NodeOf(Parent(files[k2]) \o paths[i]))))

\* two entries of a branch, in different directories, whose ./ include was
\* resolved to different paths
C2_Witness ==
    /\ InBody
    /\ \E k1 \in 1..Len(db_items) : \E k2 \in 1..Len(db_items) :
          /\ db_items[k1].directory # db_items[k2].directory
          /\ \E i \in 1..Len(paths) :
                /\ Head(paths[i]) = CurDir
                /\ Includes(db_items[k1])[i] # Includes(db_items[k2])[i]

\* C3, as claimed: no entry is produced with an include path that does not
\* exist.
C3_Original ==
    InBody =>
        \A k \in 1..Len(db_items) : \A i \in 1..Len(Includes(db_items[k])) :
            Exists(Includes(db_items[k])[i])

\* C3, amended: for every merged include path that is not absolute and every
\* discovered file, the resolution fails with a path-resolution error
\* carrying the offending path and the base directory used whenever the
\* resulting path does not exist, and no entry is produced with a relative
\* include path that does not exist; an absolute include path is passed
\* through unchanged, without a check that it exists.
C3_ResolveFails ==
    /\ (err.some /\ err.v.kind = "resolve") =>
          /\ pc = "failed"
          /\ candidates = <<>> /\ fi < Len(files)
          /\ \E i \in 1..Len(paths) :
                /\ err.v.path = paths[i]
                /\ Relative(paths[i])
                /\ err.v.base = (IF Dotted(paths[i]) \/ paths[i] = <<>>
                                 THEN Parent(file_path) ELSE cur_dir)
                /\ NodeOf(err.v.base \o err.v.path) = 0
                /\ \A j \in 1..(i - 1) :
                      Relative(paths[j]) =>
                          NodeOf((IF Dotted(paths[j]) THEN Parent(file_path) ELSE cur_dir)
                                     \o paths[j]) # 0
    /\ InBody =>
          \A k \in 1..Len(db_items) : \A i \in 1..Len(paths) :
              /\ Relative(paths[i]) =>
                    /\ NodeOf((IF Dotted(paths[i]) THEN Parent(files[k]) ELSE cur_dir)
                                  \o paths[i]) # 0
                    /\ NodeOf(Includes(db_items[k])[i]) # 0
              /\ ~Relative(paths[i]) => Includes(db_items[k])[i] = paths[i]

\* the run failed on a relative include path that does not exist
C3_Witness ==
    /\ pc = "failed"
    /\ err.some /\ err.v.kind = "resolve"
    /\ err.v.path = IncCurGone
    /\ db_items = <<>>

BranchErrorKinds == {"glob", "tool_spawn", "tool_exit", "resolve", "compiler", "env"}

\* C4: if the processing of a branch fails, the run ends with that error and
\* the output file is neither created nor modified, whatever the branches
\* before it produced.
C4_NoPartialDatabase ==
    (err.some /\ err.v.kind \in BranchErrorKinds) =>
        /\ pc = "failed"
        /\ out \in PriorOutputs

\* the second branch failed after the first one had produced entries
C4_Witness ==
    /\ pc = "failed"
    /\ err.some /\ err.v.kind \in BranchErrorKinds
    /\ bi = 2
    /\ db # <<>>
    /\ out \in PriorOutputs

\* C5: the discovery strategy of a branch is mask, else tool, else the
\* default mask: no command is ever run for a branch that has a mask, a
\* command is run only for a branch with a tool and no mask, a branch with a
\* mask is scanned with its mask, and the default mask is used only for a
\* branch with neither.
C5_StrategyPriority ==
    /\ \A i \in 1..Len(executed) :
          /\ ~config.branches[executed[i].bi].mask.some
          /\ config.branches[executed[i].bi].tool.some
    /\ \A i \in 1..Len(scanned) :
          \/ /\ config.branches[scanned[i].bi].mask.some
             /\ scanned[i].masks = config.branches[scanned[i].bi].mask.v
          \/ /\ ~config.branches[scanned[i].bi].mask.some
             /\ ~config.branches[scanned[i].bi].tool.some
             /\ scanned[i].masks = DefaultMasks

\* a branch with both a mask and a tool was scanned with its mask, and no
\* command was run
C5_Witness ==
    /\ executed = <<>>
    /\ \E i \in 1..Len(scanned) :
          /\ config.branches[scanned[i].bi].mask.some
          /\ config.branches[scanned[i].bi].tool.some
          /\ Words(config.branches[scanned[i].bi].tool.v) # <<>>

DefaultExtensions == {"c", "C", "cc", "cpp", "cxx", "c++"}

\* C6, as claimed: for a branch with neither mask nor tool, discovery returns
\* exactly the files that are immediate children of a matched directory and
\* whose name ends in a default extension: nothing that is not a file.
C6_DefaultDiscovery ==
    (InBody /\ candidates = <<>> /\ ~Branch.mask.some /\ ~Branch.tool.some) =>
        Range(files) =
            {PathOf(c) : c \in {n \in Nodes :
                /\ FS[n].kind = "file"
                /\ Len(FS[n].name) >= 2
                /\ FS[n].name[Len(FS[n].name)] \in DefaultExtensions
                /\ FS[n].parent \notin unreadable
                /\ \E i \in 1..Len(scanned) :
                      /\ scanned[i].bi = bi
                      /\ NodeOf(scanned[i].dir) = FS[n].parent}}

\* C8: when a command of a tool branch cannot be spawned or exits with a
\* non-zero status, the run fails there with a tool error; after a non-zero
\* exit the error carries the exit code, the captured stdout and the captured
\* stderr; no entry of the branch is produced and the candidates after the
\* failing one are not processed.
C8_ToolFailure ==
    \A i \in 1..Len(executed) :
        (~executed[i].outcome.spawned \/ executed[i].outcome.code # 0) =>
            /\ i = Len(executed)
            /\ pc = "failed"
            /\ err.some
            /\ ~executed[i].outcome.spawned =>
                  err.v = [kind |-> "tool_spawn",
                           tool |-> config.branches[executed[i].bi].tool.v]
            /\ executed[i].outcome.spawned =>
                  err.v = [kind |-> "tool_exit",
                           tool |-> config.branches[executed[i].bi].tool.v,
                           code |-> executed[i].outcome.code,
                           stdout |-> executed[i].outcome.stdout,
                           stderr |-> executed[i].outcome.stderr]
            /\ bi = executed[i].bi
            /\ db_items = <<>>
            /\ fi = 0
            /\ candidates # <<>>
            /\ Head(candidates) = executed[i].current_dir

\* the tool found files in one candidate and exited with a non-zero status
\* in a later one, with a candidate still to come
C8_Witness ==
    /\ pc = "failed"
    /\ err.some /\ err.v.kind = "tool_exit"
    /\ err.v.code = 2 /\ err.v.stderr = "boom"
    /\ files # <<>>
    /\ Len(candidates) > 1
    /\ db_items = <<>>

EntryOf(entry, path) == entry.directory = Parent(path) /\ entry.file = FileName(path)

\* C9: the entries built so far are, in order, the entries of the file
\* occurrences discovered so far, and on a successful run the database
\* written holds exactly one entry per discovered file occurrence, in branch
\* order and within a branch in discovery order, a file discovered twice
\* having two entries.
C9_OrderPreserved ==
    /\ Len(db \o db_items) <= Len(found)
    /\ \A k \in 1..Len(db \o db_items) : EntryOf((db \o db_items)[k], found[k])
    /\ pc = "done" =>
          /\ out = Written(db)
          /\ Len(db) = Len(found)

\* a run that ended well with a file discovered by two branches, so twice in
\* the database
C9_Witness ==
    /\ pc = "done"
    /\ Len(config.branches) = 2
    /\ \E k1 \in 1..Len(out.db) : \E k2 \in 1..Len(out.db) :
          /\ k1 < k2
          /\ out.db[k1].directory = out.db[k2].directory
          /\ out.db[k1].file = out.db[k2].file
          /\ out.db[k1] # out.db[k2]

GlobalFlags == unwrap_or_empty(config.compile_flags)

GlobalPaths == unwrap_or_empty(config.include_paths)

\* C10: the flags of every entry of a branch are the global flags followed,
\* after a blank when both are there, by the flags of that branch, and its
\* include paths are the global paths followed by the paths of that branch,
\* in declared order; the global defaults are the same for every branch.
C10_Merge ==
    /\ compile_flags = GlobalFlags
    /\ include_paths = GlobalPaths
    /\ InBody =>
          /\ flags = (IF ~Branch.compile_flags.some THEN GlobalFlags
                      ELSE IF GlobalFlags = <<>> THEN Branch.compile_flags.v
                      ELSE GlobalFlags \o <<SP>> \o Branch.compile_flags.v)
          /\ paths = GlobalPaths \o unwrap_or_empty(Branch.include_paths)
          /\ \A k \in 1..Len(db_items) :
                /\ db_items[k].command.v.flags = flags
                /\ Len(Includes(db_items[k])) = Len(paths)
                /\ \A i \in 1..Len(paths) :
                      Includes(db_items[k])[i] = ResolveInclude(paths[i], files[k]).v

\* an entry of the second branch, which has flags of its own to put after the
\* global ones, the first branch having had include paths of its own
C10_Witness ==
    /\ InBody
    /\ bi = 2
    /\ db_items # <<>>
    /\ config.compile_flags.some
    /\ Branch.compile_flags.some
    /\ config.branches[1].include_paths.some
    /\ config.include_paths.some

ProbeOf(i, j) ==
    PATH.v[j] \o <<(IF Extension(FileName(call.v.source_file)) = Some("c")
                    THEN <<N("clang"), N("gcc"), N("cc")>>
                    ELSE <<N("clang++"), N("g++"), N("c++")>>)[i]>>

\* C7: the candidates are clang, gcc, cc for the extension c and clang++,
\* g++, c++ for anything else; the result is the highest-priority candidate
\* that exists in some directory of the search path, taken from the earliest
\* directory that holds it; the call fails with the compiler error naming the
\* source file only when no candidate exists in any directory.
C7_CandidateFirst ==
    (Returned /\ PATH.some) =>
        LET hits == {ij \in (1..3) \X (1..Len(PATH.v)) :
                         ProbeOf(ij[1], ij[2]) \in executables}
        IN /\ hits = {} =>
                 call.v.ret.v = Err([kind |-> "compiler", file |-> call.v.source_file])
           /\ hits # {} =>
                 \E ij \in hits :
                     /\ call.v.ret.v = Ok(ProbeOf(ij[1], ij[2]))
                     /\ \A other \in hits :
                           \/ ij[1] < other[1]
                           \/ (ij[1] = other[1] /\ ij[2] <= other[2])

\* a call that returned a candidate of a later directory although an earlier
\* directory holds a candidate of lower priority
C7_Witness ==
    /\ Returned /\ PATH.some
    /\ call.v.ret.v.ok
    /\ \E i \in 1..3 : \E j \in 1..Len(PATH.v) : \E i2 \in 1..3 : \E j2 \in 1..Len(PATH.v) :
          /\ call.v.ret.v.v = ProbeOf(i, j)
          /\ ProbeOf(i2, j2) \in executables
          /\ i < i2
          /\ j2 < j

====
